---- MODULE Spec2Model ----
(***************************************************************************)
(* State-machine model of the SyArm robot of sybot_lib.                    *)
(*                                                                         *)
(* The source tree holds two implementations of SyArm:                     *)
(*   build = "arm" : src/src/arm.rs + src/src/robot/act.rs (BasicRobot)    *)
(*   build = "lib" : src/src/lib.rs (the concrete SyArm struct)            *)
(* A program links exactly one of them; Init picks which.                  *)
(*                                                                         *)
(* Units: angles are counted in quarter turns (PI = 2), so that every      *)
(* rotation matrix is an exact integer matrix; lengths are millimetres.    *)
(* f32 values are integers plus the three non-finite values NaN, PosInf    *)
(* and NegInf.                                                             *)
(***************************************************************************)
EXTENDS Integers, Sequences, FiniteSets, TLC

\* ------------------------------------------------------------------------
\* Bounds of the model
\* ------------------------------------------------------------------------
\* Finite control-space positions range over 0 .. MaxGamma
MaxGamma == 1
\* set_tool_id / T<index> is tried with the indices 0 .. MaxToolArg
MaxToolArg == 2

\* ------------------------------------------------------------------------
\* f32 values
\* ------------------------------------------------------------------------
PosInf == MaxGamma + 1
NegInf == 0 - (MaxGamma + 1)
NaN == MaxGamma + 2

FiniteVals == 0 .. MaxGamma
GammaVals == FiniteVals \cup {NaN, PosInf, NegInf}

\* f32::is_finite
is_finite(g) == g \notin {NaN, PosInf, NegInf}

\* f32 comparison a < b: every comparison with NaN is false
f32_lt(a, b) == a # NaN /\ b # NaN /\ a < b

\* f32 addition, as far as the model needs it: a finite, b any value
f32_add(a, b) == IF is_finite(b) THEN a + b ELSE b

\* ------------------------------------------------------------------------
\* Machine description
\* ------------------------------------------------------------------------
COMP == 4
Axes == 0 .. COMP - 1

\* A per-axis array written as a tuple
Arr(s) == [i \in Axes |-> s[i + 1]]

\* Option<T>: None is <<>>, Some(v) is <<v>>
None == <<>>
Some(v) == <<v>>

PI == 2

\* mach.limit[i] : LimitDecl { max, min }
limit == Arr(<< [min |-> Some(1), max |-> None],
                [min |-> None,    max |-> Some(0)],
                [min |-> None,    max |-> Some(1)],
                [min |-> Some(0), max |-> Some(1)] >>)

NoLimit == [i \in Axes |-> [min |-> None, max |-> None]]

\* mach.home : position the components are constructed at
home == Arr(<<1, 0, 1, 1>>)

\* mach.meas[i].set_val (meas_b, meas_a1, meas_a2, meas_a3)
meas_set_val == Arr(<<1, 0, 0, 0>>)

\* mach.meas_dist : the distance travelled towards the reference switch
meas_dist == Arr(<<0 - 1, 0 - 1, 0 - 1, 0 - 1>>)

AllTrue == [i \in Axes |-> TRUE]

\* ------------------------------------------------------------------------
\* State
\* ------------------------------------------------------------------------
VARIABLES
    build,      \* "arm" or "lib": which SyArm implementation is linked
    gammas,     \* comps[i].get_gamma(): current position of every component
    limits,     \* the limit every component currently enforces
    forces,     \* the load force applied to every component
    inertias,   \* the load inertia applied to every component
    vars,       \* RobotVars / Variables: load, dec_angle, point
    tool_id,    \* index of the active tool
    hooks,      \* tool lifecycle calls made by the latest tool selection
    panicked,   \* an unwrap() on None has aborted the program
    arg,        \* the gamma vector handed to the validation functions
    moving,     \* per axis: the motion issued asynchronously and still in flight
    awaiting,   \* the axis await_inactive is blocked on, None outside of it
    ws,         \* the WebSocket server: AppData mutex, handlers, lines executed
    ret         \* what the latest operation returned

vars_all == <<build, gammas, limits, forces, inertias, vars, tool_id, hooks,
              panicked, arg, moving, awaiting, ws, ret>>

\* The value an operation returned: ok is Ok/Err (TRUE for a unit return),
\* flags the per-axis boolean array where the operation has one.
Ret(op, ok, flags) == [op |-> op, ok |-> ok, flags |-> flags]

\* ------------------------------------------------------------------------
\* Components (stepper_lib, described by the specification's section 4.3)
\* ------------------------------------------------------------------------
\* Component::get_limit_dest(gamma).reached() under the limit lim
limit_reached(lim, g) ==
    \/ (lim.min # None /\ f32_lt(g, lim.min[1]))
    \/ (lim.max # None /\ f32_lt(lim.max[1], g))

\* One entry of ComponentGroup::valid_gammas_verb
comp_valid(lims, i, g) == is_finite(g) /\ ~limit_reached(lims[i], g)

\* ComponentGroup::valid_gammas_verb
valid_gammas_verb(lims, gs) == [i \in Axes |-> comp_valid(lims, i, gs[i])]

\* Component::drive_abs: the position of component i after it was sent to g.
\* A target that is not finite or violates the limit is rejected without motion.
comp_drive_abs(lims, cur, i, g) == IF comp_valid(lims, i, g) THEN g ELSE cur[i]

\* ComponentGroup::drive_abs: every axis is driven, none waits for another
group_drive_abs(lims, cur, gs) == [i \in Axes |-> comp_drive_abs(lims, cur, i, gs[i])]

\* ComponentGroup::drive_abs result: Ok iff no axis failed
group_drive_ok(lims, gs) == \A i \in Axes : comp_valid(lims, i, gs[i])

\* Component::measure: the position of component i after a measurement run
\* that did (reached) or did not reach the reference switch
comp_measure(cur, i, reached) ==
    IF reached THEN meas_set_val[i] ELSE cur[i] + meas_dist[i]

\* ------------------------------------------------------------------------
\* Vectors and rotations (glam Vec3 / Mat3, angles in quarter turns)
\* ------------------------------------------------------------------------
VZero == <<0, 0, 0>>
VAdd(a, b) == <<a[1] + b[1], a[2] + b[2], a[3] + b[3]>>
VSub(a, b) == <<a[1] - b[1], a[2] - b[2], a[3] - b[3]>>
VHalf(a) == <<a[1] \div 2, a[2] \div 2, a[3] \div 2>>

\* Mat3::from_rotation_z(k) * v
RotZ(k, v) ==
    CASE k % 4 = 0 -> v
      [] k % 4 = 1 -> <<0 - v[2], v[1], v[3]>>
      [] k % 4 = 2 -> <<0 - v[1], 0 - v[2], v[3]>>
      [] k % 4 = 3 -> <<v[2], 0 - v[1], v[3]>>

\* Mat3::from_rotation_x(k) * v
RotX(k, v) ==
    CASE k % 4 = 0 -> v
      [] k % 4 = 1 -> <<v[1], 0 - v[3], v[2]>>
      [] k % 4 = 2 -> <<v[1], 0 - v[2], 0 - v[3]>>
      [] k % 4 = 3 -> <<v[1], v[3], 0 - v[2]>>

\* ------------------------------------------------------------------------
\* Geometry, masses and tools
\* ------------------------------------------------------------------------
\* mach.anchor
anchor == <<0, 0, 50>>

\* mach.dims : the segment vectors in the default pose
dims == Arr(<< <<0, 0, 0>>, <<0, 300, 0>>, <<0, 250, 0>>, <<0, 50, 0>> >>)

\* mach.sim[i].mass (grams)
sim_mass == Arr(<<900, 700, 500, 300>>)

\* ConfigElement.ang : AngleData { offset, counter } of every axis
ang == Arr(<< [offset |-> 0, counter |-> FALSE],
              [offset |-> 1, counter |-> TRUE],
              [offset |-> 0 - 1, counter |-> FALSE],
              [offset |-> 0, counter |-> FALSE] >>)

\* Constants of the lib build: a_b, l_a1, l_a2, l_a3, l_c1a, delta_*
a_b == <<0, 0, 50>>
l_a1 == 300
l_a2 == 250
l_a3 == 50
l_c1a == 100
delta_1a == 1
delta_1b == 0
delta_2a == 1
delta_2b == 0

\* The tool list: NoTool and PencilTool::new(127.0, 0.25) (mass in grams)
NumTools == 2
tools == [k \in 0 .. NumTools - 1 |->
            IF k = 0 THEN [vec |-> <<0, 0, 0>>, mass |-> 0]
                     ELSE [vec |-> <<0, 127, 0>>, mass |-> 250]]

\* get_tool(): Some(tool) iff the index is inside the tool list
get_tool(tid) == IF tid \in DOMAIN tools THEN Some(tools[tid]) ELSE None

\* ------------------------------------------------------------------------
\* Phi / Gamma conversion
\* ------------------------------------------------------------------------
\* lib build: phi_b, phi_a1, phi_a2, phi_a3
phi_b(gamma_b) == gamma_b
phi_a1(gamma_a1) == PI - gamma_a1 - delta_1a - delta_1b
phi_a2(gamma_a2) == gamma_a2 + delta_2a + delta_2b - PI
phi_a3(gamma_a3) == gamma_a3

\* lib build: get_all_phis
get_all_phis(gs) == Arr(<<phi_b(gs[0]), phi_a1(gs[1]), phi_a2(gs[2]), phi_a3(gs[3])>>)

\* arm build: mach.phis_from_gammas, an offset and a sign per axis
phis_from_gammas(gs) ==
    [i \in Axes |-> (IF ang[i].counter THEN 0 - gs[i] ELSE gs[i]) + ang[i].offset]

\* lib build: gamma_b, gamma_a1, gamma_a2, gamma_a3
gamma_b(phi) == phi
gamma_a1(phi) == PI - phi - delta_1a - delta_1b
gamma_a2(phi) == PI + phi - delta_2a - delta_2b
gamma_a3(phi) == phi

\* lib build: gammas_for_phis
gammas_for_phis(phis) ==
    Arr(<<gamma_b(phis[0]), gamma_a1(phis[1]), gamma_a2(phis[2]), gamma_a3(phis[3])>>)

\* lib build: phis_for_gammas; the base entry is computed with phi_a1
phis_for_gammas(gs) ==
    Arr(<<phi_a1(gs[0]), phi_a1(gs[1]), phi_a2(gs[2]), phi_a3(gs[3])>>)

\* arm build: mach.gammas_from_phis, the offset and the sign taken back
gammas_from_phis(phis) ==
    [i \in Axes |-> IF ang[i].counter THEN 0 - (phis[i] - ang[i].offset)
                                      ELSE phis[i] - ang[i].offset]

\* ------------------------------------------------------------------------
\* Forward kinematics
\* ------------------------------------------------------------------------
\* mach.get_axes(phis)[i] * v : the rotation of axis i (base about Z, arm about X)
axis_rot(i, phi, v) == IF i = 0 THEN RotZ(phi, v) ELSE RotX(phi, v)

\* mat_total * v, mat_total = matr[0] * ... * matr[i]
RECURSIVE chain_rot(_, _, _)
chain_rot(phis, i, v) ==
    IF i = 0 THEN axis_rot(0, phis[0], v)
             ELSE chain_rot(phis, i - 1, axis_rot(i, phis[i], v))

\* arm build: vecs_from_phis
vecs_from_phis(phis) == [i \in Axes |-> chain_rot(phis, i, dims[i])]

\* Sum of vecs[0 ..= i]
RECURSIVE prefix_sum(_, _)
prefix_sum(vecs, i) ==
    IF i = 0 THEN vecs[0] ELSE VAdd(prefix_sum(vecs, i - 1), vecs[i])

\* points_from_vecs with the tool offset added to every point
points_from_vecs_tool_everywhere(vecs, tool) ==
    [i \in Axes |-> VAdd(VAdd(anchor, prefix_sum(vecs, i)), tool.vec)]

\* arm build: points_from_vecs with the tool tool (get_tool().unwrap())
points_from_vecs(vecs, tool) ==
    [i \in Axes |->
        IF i = COMP - 1
        THEN VAdd(VAdd(anchor, prefix_sum(vecs, i)), tool.vec)
        ELSE VAdd(anchor, prefix_sum(vecs, i))]

\* lib build: a_dec
a_dec(tool) == VAdd(<<0, l_a3, 0>>, tool.vec)

\* lib build: get_vectors_by_phis
get_vectors_by_phis(angles, tool) ==
    Arr(<< RotZ(angles[0], a_b),
           RotZ(angles[0], RotX(angles[1], <<0, l_a1, 0>>)),
           RotZ(angles[0], RotX(angles[1], RotX(angles[2], <<0, l_a2, 0>>))),
           RotZ(angles[0], RotX(angles[1], RotX(angles[2],
                RotX(angles[3], a_dec(tool))))) >>)

\* lib build: get_points_by_phis
get_points_by_phis(angles, tool) ==
    [i \in Axes |-> prefix_sum(get_vectors_by_phis(angles, tool), i)]

\* ------------------------------------------------------------------------
\* Statics and inertia.  The results of stepper_lib::math (forces_joint,
\* forces_segment, inertia_rod_constr, inertia_point, inertia_to_mass) are
\* kept as terms over their arguments.
\* ------------------------------------------------------------------------
\* get_cylinder_vecs: c1a is the Y distance of the base helper (arm build:
\* the hard-coded 100.0; lib build: cons.l_c1a), gamma_base comps[0].get_gamma()
cylinder_vecs(vecs, gamma_base, c1a) ==
    LET base_helper == RotZ(0 - gamma_base, <<0, 0 - c1a, 0>>)
        a_12 == VAdd(VHalf(vecs[1]), VHalf(vecs[2]))
    IN  << <<VSub(VHalf(vecs[1]), base_helper), base_helper>>,
           <<a_12, VHalf(vecs[1])>>,
           <<a_12, VHalf(vecs[2])>> >>

\* arm build: get_cylinder_vecs
get_cylinder_vecs(vecs, gamma_base) == cylinder_vecs(vecs, gamma_base, 100)

\* forces_from_vecs over the cylinder vectors cyl, masses mass, payload load
force_terms(vecs, cyl, mass, load, tool) ==
    LET a_load == VAdd(tool.vec, vecs[3])
        j3 == <<"forces_joint", load + tool.mass, a_load, mass[3], VHalf(vecs[3])>>
        s2 == <<"forces_segment", j3, vecs[2], mass[2], cyl[3][2], cyl[3][1]>>
        s1 == <<"forces_segment", s2, vecs[1], cyl[2][2], mass[1], cyl[1][2], cyl[1][1]>>
    IN  Arr(<< <<"zero">>, <<"length", s1>>, <<"length", s2>>, <<"length_milli", j3>> >>)

\* arm build: forces_from_vecs
forces_from_vecs(vecs, gamma_base, load, tool) ==
    force_terms(vecs, get_cylinder_vecs(vecs, gamma_base), sim_mass, load, tool)

\* The segments (mass, vector) from joint index to the tip
RECURSIVE segments_from(_, _, _)
segments_from(vecs, mass, index) ==
    IF index = COMP - 1 THEN << <<mass[index], vecs[index]>> >>
    ELSE << <<mass[index], vecs[index]>> >> \o segments_from(vecs, mass, index + 1)

\* tool.get_vec() + vecs[index] + ... + vecs[3]
RECURSIVE tip_from(_, _, _)
tip_from(vecs, tool, index) ==
    IF index = COMP - 1 THEN VAdd(tool.vec, vecs[index])
    ELSE VAdd(tip_from(vecs, tool, index + 1), vecs[index])

\* inertia_rod_constr(segments) + inertia_point(point, tool_mass) at joint index
joint_inertia(vecs, mass, tool, index) ==
    <<"inertia", segments_from(vecs, mass, index), tip_from(vecs, tool, index), tool.mass>>

\* inertias_from_vecs over the cylinder vectors cyl
inertia_terms(vecs, cyl, mass, gamma_base, tool) ==
    Arr(<< <<"z_axis_micro", joint_inertia(vecs, mass, tool, 0)>>,
           <<"inertia_to_mass", joint_inertia(vecs, mass, tool, 1), cyl[1][2], cyl[1][1]>>,
           <<"inertia_to_mass", joint_inertia(vecs, mass, tool, 2), cyl[3][2], cyl[3][1]>>,
           <<"x_axis_micro", 0 - gamma_base, joint_inertia(vecs, mass, tool, 3)>> >>)

\* arm build: inertias_from_vecs
inertias_from_vecs(vecs, gamma_base, tool) ==
    inertia_terms(vecs, get_cylinder_vecs(vecs, gamma_base), sim_mass, gamma_base, tool)

\* lib build: masses m_b, m_a1, m_a2, m_a3 and get_cylinder_vecs
lib_get_cylinder_vecs(vecs, gamma_base) == cylinder_vecs(vecs, gamma_base, l_c1a)

\* lib build: get_forces
get_forces(vecs, gamma_base, load, tool) ==
    force_terms(vecs, lib_get_cylinder_vecs(vecs, gamma_base), sim_mass, load, tool)

\* lib build: get_inertias
get_inertias(vecs, gamma_base, tool) ==
    inertia_terms(vecs, lib_get_cylinder_vecs(vecs, gamma_base), sim_mass, gamma_base, tool)

\* No load has been applied yet
NoLoad == [i \in Axes |-> <<"none">>]

\* ------------------------------------------------------------------------
\* Inputs
\* ------------------------------------------------------------------------
\* Gamma vectors tried as targets: the home position, and the measured
\* position with at most one axis replaced by any value (finite or not)
DriveTargets ==
    {home, meas_set_val} \cup
    {[meas_set_val EXCEPT ![k] = b] : k \in Axes, b \in GammaVals}

\* Displacements tried by drive_rel: one axis by d, the others stay
DeltaVals == {0 - 1, 1, NaN, PosInf, NegInf}
DriveDeltas ==
    {[i \in Axes |-> IF i = k THEN d ELSE 0] : k \in Axes, d \in DeltaVals}

\* Every gamma vector
AllGammaVecs == [Axes -> GammaVals]

\* Outcomes of a measurement run, which axes reach their reference switch:
\* all do, one does not, or the base and one other axis do not
Reached ==
    {r \in [Axes -> BOOLEAN] :
        \/ Cardinality({i \in Axes : ~r[i]}) <= 1
        \/ (~r[0] /\ Cardinality({i \in Axes : ~r[i]}) = 2)}

\* Tool indices tried
ToolArgs == 0 .. MaxToolArg

\* ------------------------------------------------------------------------
\* WebSocket server: the connections and the server before any message
\* ------------------------------------------------------------------------
\* Connections, each with a WSHandler of its own on the shared AppData
Conns == {1, 2}

\* No handler holds the AppData mutex (lock = 0), no line was executed
WSIdle ==
    [lock |-> 0, log |-> <<>>,
     conn |-> [c \in Conns |-> [pc |-> "idle", text |-> <<>>, results |-> <<>>,
                                reply |-> None]]]

\* ------------------------------------------------------------------------
\* Initial state: the robot as constructed, at its home position, tool 0
\* selected, nothing applied.  The arm build sets the limits of its components
\* when it is measured (set_limit); the lib build never sets them itself, its
\* controllers are handed over with or without limits.
\* ------------------------------------------------------------------------
InitRobot ==
    /\ build \in {"arm", "lib"}
    /\ gammas = home
    /\ limits \in IF build = "arm" THEN {NoLimit} ELSE {NoLimit, limit}
    /\ forces = NoLoad
    /\ inertias = NoLoad
    /\ vars = [load |-> 0, dec_angle |-> 0, point |-> VZero]
    /\ tool_id = 0
    /\ hooks = <<>>
    /\ panicked = FALSE
    /\ moving = [i \in Axes |-> None]
    /\ awaiting = None
    /\ ws = WSIdle
    /\ ret = Ret("new", TRUE, AllTrue)

Init == InitRobot /\ arg = home

\* get_tool().unwrap() on None: the thread panics, nothing else is written
Panic == /\ panicked' = TRUE
         /\ ret' = Ret("panic", FALSE, AllTrue)

\* ------------------------------------------------------------------------
\* Validation
\* ------------------------------------------------------------------------
\* SafeRobot::valid_gammas returning a diagnostic that blames every axis
valid_gammas_blame_all(lims, gs) ==
    LET valids == valid_gammas_verb(lims, gs)
    IN  IF \E i \in Axes : ~valids[i]
        THEN Ret("valid_gammas", FALSE, [i \in Axes |-> FALSE])
        ELSE Ret("valid_gammas", TRUE, AllTrue)

\* arm build: SafeRobot::valid_gammas, Ok(()) or Err((valids, error))
valid_gammas(lims, gs) ==
    LET valids == valid_gammas_verb(lims, gs)
    IN  IF \E i \in Axes : ~valids[i]
        THEN Ret("valid_gammas", FALSE, valids)
        ELSE Ret("valid_gammas", TRUE, AllTrue)

\* SyArm::valid_gammas of the lib build with the is_finite tests left out
lib_valid_gammas_limits_only(lims, gs) ==
    /\ ~limit_reached(lims[0], gs[0])
    /\ ~limit_reached(lims[1], gs[1])
    /\ ~limit_reached(lims[2], gs[2])
    /\ ~limit_reached(lims[3], gs[3])

\* lib build: SyArm::valid_gammas
lib_valid_gammas(lims, gs) ==
    /\ is_finite(gs[0]) /\ is_finite(gs[1]) /\ is_finite(gs[2]) /\ is_finite(gs[3])
    /\ ~limit_reached(lims[0], gs[0])
    /\ ~limit_reached(lims[1], gs[1])
    /\ ~limit_reached(lims[2], gs[2])
    /\ ~limit_reached(lims[3], gs[3])

\* lib build: SyArm::valid_gammas_det
valid_gammas_det(lims, gs) ==
    [i \in Axes |-> ~limit_reached(lims[i], gs[i]) /\ is_finite(gs[i])]

\* A call of valid_gammas(gs) (arm) or of valid_gammas(gs) and
\* valid_gammas_det(gs) (lib, as get_with_fixed_dec_s calls them); &self
ValidGammasCall(gs) ==
    /\ ~panicked
    /\ ret' = IF build = "arm" THEN valid_gammas(limits, gs)
              ELSE Ret("valid_gammas", lib_valid_gammas(limits, gs),
                       valid_gammas_det(limits, gs))
    /\ UNCHANGED <<moving, awaiting, ws, build, gammas, limits, forces, inertias, vars, tool_id, hooks,
                   panicked, arg>>

\* ------------------------------------------------------------------------
\* Multi-axis drives
\* ------------------------------------------------------------------------
\* arm build: ActRobot::drive_abs
drive_abs(gs) ==
    /\ build = "arm" /\ ~panicked
    /\ gammas' = group_drive_abs(limits, gammas, gs)
    /\ ret' = Ret("drive_abs", group_drive_ok(limits, gs), AllTrue)
    /\ UNCHANGED <<moving, awaiting, ws, build, limits, forces, inertias, vars, tool_id, hooks, panicked, arg>>

\* arm build: ActRobot::drive_rel
drive_rel(deltas) ==
    LET gs == [i \in Axes |-> f32_add(gammas[i], deltas[i])]
    IN  /\ build = "arm" /\ ~panicked
        /\ \A i \in Axes : is_finite(deltas[i]) => gs[i] \in FiniteVals
        /\ gammas' = group_drive_abs(limits, gammas, gs)
        /\ ret' = Ret("drive_rel", group_drive_ok(limits, gs), AllTrue)
        /\ UNCHANGED <<moving, awaiting, ws, build, limits, forces, inertias, vars, tool_id, hooks,
                       panicked, arg>>

\* lib build: SyArm::drive_to_angles = drive_base_abs; drive_a1_abs;
\* drive_a2_abs; drive_a3_abs, every result dropped
drive_to_angles(angles) ==
    /\ build = "lib" /\ ~panicked
    /\ gammas' = [i \in Axes |-> comp_drive_abs(limits, gammas, i, angles[i])]
    /\ ret' = Ret("drive_to_angles", TRUE, AllTrue)
    /\ UNCHANGED <<moving, awaiting, ws, build, limits, forces, inertias, vars, tool_id, hooks, panicked, arg>>

\* ------------------------------------------------------------------------
\* Update: pose and loads recomputed, loads applied, tip position cached
\* ------------------------------------------------------------------------
\* arm build: what update(Some(phis)) writes, with the tool tool
update_arm(phis, gs, load, tool) ==
    LET vectors == vecs_from_phis(phis)
        points == points_from_vecs(vectors, tool)
    IN  [forces |-> forces_from_vecs(vectors, gs[0], load, tool),
         inertias |-> inertias_from_vecs(vectors, gs[0], tool),
         point |-> points[COMP - 1]]

\* lib build: what update_sim() writes, with the tool tool
update_sim(gs, load, tool) ==
    LET phis == get_all_phis(gs)
        vectors == get_vectors_by_phis(phis, tool)
        points == get_points_by_phis(phis, tool)
    IN  [forces |-> get_forces(vectors, gs[0], load, tool),
         inertias |-> get_inertias(vectors, gs[0], tool),
         point |-> points[COMP - 1]]

\* What update(None) / update_sim() writes when the components are at gs
Updated(gs, tool) ==
    IF build = "arm" THEN update_arm(phis_from_gammas(gs), gs, vars.load, tool)
                     ELSE update_sim(gs, vars.load, tool)

\* The writes of an update, or the panic of get_tool().unwrap()
ApplyUpdate(u) ==
    /\ forces' = u.forces
    /\ inertias' = u.inertias
    /\ vars' = [vars EXCEPT !.point = u.point]

\* Phi arrays handed to update: None, or Some pose
UpdateArgs == {None, Some(phis_from_gammas(meas_set_val))}

\* arm build: update(None) and update(Some(phis)); lib build: update_sim()
update(phis) ==
    /\ ~panicked /\ awaiting = None
    /\ phis # None => build = "arm"
    /\ IF get_tool(tool_id) = None
       THEN Panic /\ UNCHANGED <<forces, inertias, vars>>
       ELSE /\ ApplyUpdate(IF phis = None
                           THEN Updated(gammas, get_tool(tool_id)[1])
                           ELSE update_arm(phis[1], gammas, vars.load,
                                           get_tool(tool_id)[1]))
            /\ ret' = Ret("update", TRUE, AllTrue)
            /\ UNCHANGED panicked
    /\ UNCHANGED <<moving, awaiting, ws, build, gammas, limits, tool_id, hooks, arg>>

\* ------------------------------------------------------------------------
\* Measurement (homing)
\* ------------------------------------------------------------------------
\* ActRobot::set_limit: every component gets the configured limit
set_limit == limit

\* SyArm::measure of the arm build running set_limit and update whatever the
\* axes report
measure_updates_always(reached) ==
    LET after == [i \in Axes |-> comp_measure(gammas, i, reached[i])]
        res_1 == reached[1]
        res_2 == reached[2]
        res_3 == reached[3]
    IN  /\ build = "arm" /\ ~panicked
        /\ \A i \in Axes : after[i] \in FiniteVals
        /\ gammas' = after
        /\ limits' = set_limit
        /\ ApplyUpdate(Updated(after, get_tool(tool_id)[1]))
        /\ ret' = IF res_1 /\ res_2 /\ res_3
                  THEN Ret("measure", TRUE, AllTrue)
                  ELSE Ret("measure", FALSE, Arr(<<TRUE, res_1, res_2, res_3>>))
        /\ UNCHANGED <<moving, awaiting, ws, build, tool_id, hooks, panicked, arg>>

\* arm build: SyArm::measure.  comps.measure runs all four components; the
\* result of the base is dropped.
measure(reached) ==
    LET after == [i \in Axes |-> comp_measure(gammas, i, reached[i])]
        res_1 == reached[1]
        res_2 == reached[2]
        res_3 == reached[3]
    IN  /\ build = "arm" /\ ~panicked
        /\ \A i \in Axes : after[i] \in FiniteVals
        /\ gammas' = after
        /\ IF res_1 /\ res_2 /\ res_3
           THEN /\ limits' = set_limit
                /\ IF get_tool(tool_id) = None
                   THEN Panic /\ UNCHANGED <<forces, inertias, vars>>
                   ELSE /\ ApplyUpdate(Updated(after, get_tool(tool_id)[1]))
                        /\ ret' = Ret("measure", TRUE, AllTrue)
                        /\ UNCHANGED panicked
           ELSE /\ ret' = Ret("measure", FALSE,
                              Arr(<<TRUE, res_1, res_2, res_3>>))
                /\ UNCHANGED <<limits, forces, inertias, vars, panicked>>
        /\ UNCHANGED <<moving, awaiting, ws, build, tool_id, hooks, arg>>

\* lib build: SyArm::measure.  The base is not measured at all, so it does
\* not get to its reference.
lib_measure(reached) ==
    LET after == [i \in Axes |-> IF i = 0 THEN gammas[0]
                                 ELSE comp_measure(gammas, i, reached[i])]
        a_1 == reached[1]
        a_2 == reached[2]
        a_3 == reached[3]
    IN  /\ build = "lib" /\ ~panicked
        /\ ~reached[0]
        /\ \A i \in Axes : after[i] \in FiniteVals
        /\ gammas' = after
        /\ IF a_1 /\ a_2 /\ a_3
           THEN IF get_tool(tool_id) = None
                THEN Panic /\ UNCHANGED <<forces, inertias, vars>>
                ELSE /\ ApplyUpdate(Updated(after, get_tool(tool_id)[1]))
                     /\ ret' = Ret("measure", TRUE, AllTrue)
                     /\ UNCHANGED panicked
           ELSE /\ ret' = Ret("measure", FALSE, Arr(<<TRUE, a_1, a_2, a_3>>))
                /\ UNCHANGED <<forces, inertias, vars, panicked>>
        /\ UNCHANGED <<moving, awaiting, ws, build, limits, tool_id, hooks, arg>>

\* ------------------------------------------------------------------------
\* Tools
\* ------------------------------------------------------------------------
\* lib build: SyArm::set_tool_id, a plain assignment
set_tool_id(id) ==
    /\ build = "lib" /\ ~panicked
    /\ tool_id' = id
    /\ hooks' = <<>>
    /\ ret' = Ret("set_tool_id", TRUE, AllTrue)
    /\ UNCHANGED <<moving, awaiting, ws, build, gammas, limits, forces, inertias, vars, panicked, arg>>

\* G-code T<index>: the tool selection is commented out, Ok(Null) is returned
t(index) ==
    /\ build = "arm" /\ ~panicked
    /\ ret' = Ret("t", TRUE, AllTrue)
    /\ UNCHANGED <<moving, awaiting, ws, build, gammas, limits, forces, inertias, vars, tool_id, hooks,
                   panicked, arg>>

\* ------------------------------------------------------------------------
\* The robot
\* ------------------------------------------------------------------------
Next ==
    \/ \E gs \in DriveTargets : drive_abs(gs)
    \/ \E deltas \in DriveDeltas : drive_rel(deltas)
    \/ \E gs \in DriveTargets : drive_to_angles(gs)
    \/ \E phis \in UpdateArgs : update(phis)
    \/ \E reached \in Reached : measure(reached)
    \/ \E reached \in Reached : lib_measure(reached)
    \/ \E id \in ToolArgs : set_tool_id(id)
    \/ \E index \in ToolArgs : t(index)

Spec == Init /\ [][Next]_vars_all

\* ------------------------------------------------------------------------
\* The validation functions on their own: the robot as constructed, any gamma
\* vector as the argument; the robot is validated against before and after a
\* measurement has set the limits.
\* ------------------------------------------------------------------------
InitValid == InitRobot /\ arg \in AllGammaVecs

NextValid ==
    \/ ValidGammasCall(arg)
    \/ measure(AllTrue)
    \/ lib_measure([i \in Axes |-> i # 0])

SpecValid == InitValid /\ [][NextValid]_vars_all

\* ------------------------------------------------------------------------
\* Asynchronous motion.  An asynchronous operation issues the motion of an
\* axis and returns; the driver of the axis finishes the motion on its own
\* (finish).  The caller observes completion with await_inactive, which
\* blocks on one axis after the other.
\* ------------------------------------------------------------------------
\* A motion in flight: a drive to the position to, or a measurement run
Drive(g) == [kind |-> "drive", to |-> g]
Homing(i) == [kind |-> "measure", to |-> meas_set_val[i]]

\* No axis has a motion in flight
AllIdle == \A i \in Axes : moving[i] = None

\* The caller can call an operation: it has not panicked and is not blocked
Callable == ~panicked /\ awaiting = None

\* Gamma vectors tried as targets of the asynchronous drives
AsyncTargets == {home, meas_set_val, [meas_set_val EXCEPT ![0] = NaN]}

\* Component::drive_abs_async: the motion of component i in flight after it
\* was sent to g; a target that is rejected issues nothing
comp_drive_abs_async(lims, mov, i, g) ==
    IF comp_valid(lims, i, g) THEN Some(Drive(g)) ELSE mov[i]

\* arm build: ActRobot::drive_abs_async
drive_abs_async(gs) ==
    /\ build = "arm" /\ Callable
    /\ moving' = [i \in Axes |-> comp_drive_abs_async(limits, moving, i, gs[i])]
    /\ ret' = Ret("drive_abs_async", group_drive_ok(limits, gs), AllTrue)
    /\ UNCHANGED <<awaiting, ws, build, gammas, limits, forces, inertias, vars,
                   tool_id, hooks, panicked, arg>>

\* SyArm::drive_to_angles_async driving every axis but the last to its end
\* before the next one is issued
drive_to_angles_async_serial(angles) ==
    /\ build = "lib" /\ Callable /\ AllIdle
    /\ gammas' = [i \in Axes |-> IF i < COMP - 1
                                 THEN comp_drive_abs(limits, gammas, i, angles[i])
                                 ELSE gammas[i]]
    /\ moving' = [i \in Axes |-> IF i < COMP - 1 THEN None
                                 ELSE comp_drive_abs_async(limits, moving, i, angles[i])]
    /\ ret' = Ret("drive_to_angles_async", TRUE, AllTrue)
    /\ UNCHANGED <<awaiting, ws, build, limits, forces, inertias, vars,
                   tool_id, hooks, panicked, arg>>

\* lib build: SyArm::drive_to_angles_async = drive_base_abs_async;
\* drive_a1_abs_async; drive_a2_abs_async; drive_a3_abs_async
drive_to_angles_async(angles) ==
    /\ build = "lib" /\ Callable
    /\ moving' = [i \in Axes |-> comp_drive_abs_async(limits, moving, i, angles[i])]
    /\ ret' = Ret("drive_to_angles_async", TRUE, AllTrue)
    /\ UNCHANGED <<awaiting, ws, build, gammas, limits, forces, inertias, vars,
                   tool_id, hooks, panicked, arg>>

\* SyArm::measure_async of both builds: the measurement run of every axis is
\* issued, nothing else is done
measure_async ==
    /\ Callable
    /\ moving' = [i \in Axes |-> Some(Homing(i))]
    /\ ret' = Ret("measure_async", TRUE, AllTrue)
    /\ UNCHANGED <<awaiting, ws, build, gammas, limits, forces, inertias, vars,
                   tool_id, hooks, panicked, arg>>

\* The driver of axis i finishes the motion in flight; a measurement run did
\* (reached) or did not reach the reference switch
finish(i, reached) ==
    /\ moving[i] # None
    /\ LET m == moving[i][1]
           g == IF m.kind = "drive" THEN m.to ELSE comp_measure(gammas, i, reached)
       IN  /\ m.kind = "drive" => reached
           /\ g \in FiniteVals
           /\ gammas' = [gammas EXCEPT ![i] = g]
    /\ moving' = [moving EXCEPT ![i] = None]
    /\ UNCHANGED <<awaiting, ws, build, limits, forces, inertias, vars, tool_id,
                   hooks, panicked, arg, ret>>

\* await_inactive is called: the caller starts to wait for the base
await_inactive_call ==
    /\ Callable
    /\ awaiting' = Some(0)
    /\ UNCHANGED <<moving, ws, build, gammas, limits, forces, inertias, vars,
                   tool_id, hooks, panicked, arg, ret>>

\* await_inactive that does not wait for the base
await_inactive_skip_base ==
    /\ awaiting # None
    /\ awaiting[1] = 0 \/ moving[awaiting[1]] = None
    /\ IF awaiting[1] = COMP - 1
       THEN awaiting' = None /\ ret' = Ret("await_inactive", TRUE, AllTrue)
       ELSE awaiting' = Some(awaiting[1] + 1) /\ UNCHANGED ret
    /\ UNCHANGED <<moving, ws, build, gammas, limits, forces, inertias, vars,
                   tool_id, hooks, panicked, arg>>

\* SyArm::await_inactive: the wait for the axis the caller is blocked on ends
\* when the axis is idle; after the last axis the call returns
await_inactive ==
    /\ awaiting # None
    /\ moving[awaiting[1]] = None
    /\ IF awaiting[1] = COMP - 1
       THEN awaiting' = None /\ ret' = Ret("await_inactive", TRUE, AllTrue)
       ELSE awaiting' = Some(awaiting[1] + 1) /\ UNCHANGED ret
    /\ UNCHANGED <<moving, ws, build, gammas, limits, forces, inertias, vars,
                   tool_id, hooks, panicked, arg>>

NextAsync ==
    \/ \E gs \in AsyncTargets : drive_abs_async(gs)
    \/ \E angles \in AsyncTargets : drive_to_angles_async(angles)
    \/ measure_async
    \/ \E i \in Axes, reached \in BOOLEAN : finish(i, reached)
    \/ await_inactive_call
    \/ await_inactive
    \/ update(None)

SpecAsync == Init /\ [][NextAsync]_vars_all

\* Every driver finishes the motion it was given, and a caller whose wait is
\* over goes on
SpecAsyncFair ==
    /\ SpecAsync
    /\ \A i \in Axes : WF_vars_all(\E reached \in BOOLEAN : finish(i, reached))
    /\ WF_vars_all(await_inactive)

\* lib build: drive_base_rel_async, drive_a1_rel_async, drive_a2_rel_async,
\* drive_a3_rel_async (index 0 .. 3).  The base hands get_dist() + angle to
\* its controller's drive_async, the other three hand angle over.  drive_async
\* is the controller's, not this repository's: it takes its argument as a
\* displacement like the blocking drive (rel) or as a position.  The result
\* remembers where the blocking drive_X_rel(angle) would have ended (sync).
drive_rel_async(index, angle, rel) ==
    LET passed == IF index = 0 THEN gammas[0] + angle ELSE angle
        g == IF rel THEN gammas[index] + passed ELSE passed
    IN  /\ build = "lib" /\ Callable
        /\ g \in FiniteVals /\ gammas[index] + angle \in FiniteVals
        /\ moving' = [moving EXCEPT ![index] =
                          comp_drive_abs_async(limits, moving, index, g)]
        /\ ret' = [op |-> "drive_rel_async", ok |-> comp_valid(limits, index, g),
                   flags |-> AllTrue,
                   val |-> [index |-> index, angle |-> angle,
                            idle |-> moving[index] = None,
                            sync |-> comp_drive_abs(limits, gammas, index,
                                                    gammas[index] + angle)]]
        /\ UNCHANGED <<awaiting, ws, build, gammas, limits, forces, inertias, vars,
                       tool_id, hooks, panicked, arg>>

\* Relative asynchronous drives of single axes, each followed sooner or later
\* by await_inactive
NextRelAsync ==
    \/ \E index \in Axes, angle \in {0 - 1, 0, 1}, rel \in BOOLEAN :
          drive_rel_async(index, angle, rel)
    \/ \E i \in Axes, reached \in BOOLEAN : finish(i, reached)
    \/ await_inactive_call
    \/ await_inactive

SpecRelAsync == Init /\ [][NextRelAsync]_vars_all

\* ------------------------------------------------------------------------
\* WebSocket handler.  A text message is a sequence of G-code lines; a line
\* is "ok" or "err" after what its interpretation yields.  Every handler runs
\* on its own, a line at a time; the robot sees the lines in the order of log.
\* ------------------------------------------------------------------------
\* handle(Ok(Text(text))) is entered on connection c
ws_receive(c, text) ==
    /\ ws.conn[c].pc = "idle"
    /\ ws' = [ws EXCEPT !.conn[c].pc = "lock", !.conn[c].text = text]
    /\ UNCHANGED <<moving, awaiting, build, gammas, limits, forces, inertias, vars,
                   tool_id, hooks, panicked, arg, ret>>

\* A handler that goes on without the AppData mutex being free
ws_lock_unguarded(c) ==
    /\ ws.conn[c].pc = "lock"
    /\ ws' = [ws EXCEPT !.lock = c, !.conn[c].pc = "interpret"]
    /\ UNCHANGED <<moving, awaiting, build, gammas, limits, forces, inertias, vars,
                   tool_id, hooks, panicked, arg, ret>>

\* self.data.lock().unwrap(): blocks until the mutex is free, then holds it
ws_lock(c) ==
    /\ ws.conn[c].pc = "lock"
    /\ ws.lock = 0
    /\ ws' = [ws EXCEPT !.lock = c, !.conn[c].pc = "interpret"]
    /\ UNCHANGED <<moving, awaiting, build, gammas, limits, forces, inertias, vars,
                   tool_id, hooks, panicked, arg, ret>>

\* data.intpr.interpret(&text, ..): the next line of the message is executed
\* on the robot and yields Ok(value) or Err(error)
ws_interpret(c) ==
    LET k == Len(ws.conn[c].results) + 1
    IN  /\ ws.conn[c].pc = "interpret"
        /\ k <= Len(ws.conn[c].text)
        /\ ws' = [ws EXCEPT
                    !.log = Append(@, <<c, k>>),
                    !.conn[c].results =
                        Append(@, IF ws.conn[c].text[k] = "ok"
                                  THEN <<"Ok", k>> ELSE <<"Err", k>>)]
        /\ UNCHANGED <<moving, awaiting, build, gammas, limits, forces, inertias,
                       vars, tool_id, hooks, panicked, arg, ret>>

\* The results are turned into results_json, the reply is sent and the guard
\* of the mutex is dropped at the end of the match arm
ws_reply(c) ==
    LET results == ws.conn[c].results
        results_json == [k \in 1 .. Len(results) |->
                            IF results[k][1] = "Ok" THEN <<"value", results[k][2]>>
                            ELSE <<"code", "msg", results[k][2]>>]
    IN  /\ ws.conn[c].pc = "interpret"
        /\ Len(results) = Len(ws.conn[c].text)
        /\ ws' = [ws EXCEPT
                    !.lock = 0,
                    !.conn[c].pc = "done",
                    !.conn[c].reply = Some([len |-> Len(results_json),
                                            res |-> results_json])]
        /\ UNCHANGED <<moving, awaiting, build, gammas, limits, forces, inertias,
                       vars, tool_id, hooks, panicked, arg, ret>>

\* Two connections, each sending one message of up to two lines
NextWS ==
    \/ \E c \in Conns, text \in {<<>>} \cup [1 .. 1 -> {"ok", "err"}]
                                \cup [1 .. 2 -> {"ok", "err"}] : ws_receive(c, text)
    \/ \E c \in Conns : ws_lock(c)
    \/ \E c \in Conns : ws_interpret(c)
    \/ \E c \in Conns : ws_reply(c)

SpecWS == Init /\ [][NextWS]_vars_all

\* ------------------------------------------------------------------------
\* The pure functions of the robot on their own: the robot as constructed,
\* either tool selected, any finite gamma vector as the argument.
\* ------------------------------------------------------------------------
\* The value a pure function returned
RetVal(op, val) == [op |-> op, ok |-> TRUE, flags |-> AllTrue, val |-> val]

\* Every finite gamma vector
FiniteGammaVecs == [Axes -> FiniteVals]

InitPure ==
    /\ InitRobot
    /\ arg \in FiniteGammaVecs

\* The Phi/Gamma conversions applied to arg, taken as gammas and as phis:
\* p = phis(arg), pgp = phis(gammas(phis(arg))), and per axis gp =
\* gamma_k(phi_k(arg[k])), pg = phi_k(gamma_k(arg[k]))
ConvCall ==
    /\ ~panicked
    /\ ret' = IF build = "arm"
              THEN RetVal("convert",
                     [p |-> phis_from_gammas(arg),
                      pgp |-> phis_from_gammas(gammas_from_phis(phis_from_gammas(arg))),
                      gp |-> gammas_from_phis(phis_from_gammas(arg)),
                      pg |-> phis_from_gammas(gammas_from_phis(arg))])
              ELSE RetVal("convert",
                     [p |-> phis_for_gammas(arg),
                      pgp |-> phis_for_gammas(gammas_for_phis(phis_for_gammas(arg))),
                      gp |-> Arr(<<gamma_b(phi_b(arg[0])), gamma_a1(phi_a1(arg[1])),
                                   gamma_a2(phi_a2(arg[2])), gamma_a3(phi_a3(arg[3]))>>),
                      pg |-> Arr(<<phi_b(gamma_b(arg[0])), phi_a1(gamma_a1(arg[1])),
                                   phi_a2(gamma_a2(arg[2])), phi_a3(gamma_a3(arg[3]))>>)])
    /\ UNCHANGED <<moving, awaiting, ws, build, gammas, limits, forces, inertias, vars,
                   tool_id, hooks, panicked, arg>>

\* The vecs of the pose arg, handed to the load functions
ArgVecs ==
    IF build = "arm" THEN vecs_from_phis(phis_from_gammas(arg))
    ELSE get_vectors_by_phis(get_all_phis(arg), tools[tool_id])

\* forces_from_vecs and inertias_from_vecs (lib build: get_forces and
\* get_inertias) of vecs for a robot whose base component stands at gamma_base
Loads(vecs, gamma_base) ==
    IF build = "arm"
    THEN [f |-> forces_from_vecs(vecs, gamma_base, vars.load, tools[tool_id]),
          i |-> inertias_from_vecs(vecs, gamma_base, tools[tool_id])]
    ELSE [f |-> get_forces(vecs, gamma_base, vars.load, tools[tool_id]),
          i |-> get_inertias(vecs, gamma_base, tools[tool_id])]

\* Both load functions called with ArgVecs (&self: the robot is only read);
\* the base angle is the base component's current gamma
LoadsCall ==
    /\ ~panicked
    /\ ret' = RetVal("loads", Loads(ArgVecs, gammas[0]))
    /\ UNCHANGED <<moving, awaiting, ws, build, gammas, limits, forces, inertias, vars,
                   tool_id, hooks, panicked, arg>>

\* Inverse kinematics.  An angle computed by the inverse kinematics is NaN
\* or a finite value, kept as a term over the lengths it was computed from.
NaNAngle == [nan |-> TRUE, expr |-> <<"NaN">>]
Fin(expr) == [nan |-> FALSE, expr |-> expr]
ang_add(a, b) == IF a.nan \/ b.nan THEN NaNAngle ELSE Fin(<<"add", a.expr, b.expr>>)
ang_sub(a, b) == IF a.nan \/ b.nan THEN NaNAngle ELSE Fin(<<"sub", a.expr, b.expr>>)
ang_neg(a) == IF a.nan THEN NaNAngle ELSE Fin(<<"neg", a.expr>>)

\* Vec3::length, rounded down to whole millimetres
RECURSIVE isqrt_in(_, _, _)
isqrt_in(s, lo, hi) ==
    IF lo = hi THEN lo
    ELSE LET mid == (lo + hi + 1) \div 2
         IN  IF mid * mid <= s THEN isqrt_in(s, mid, hi) ELSE isqrt_in(s, lo, mid - 1)
vlength(v) == isqrt_in(v[1] * v[1] + v[2] * v[2] + v[3] * v[3], 0, 4096)

\* law_of_cosines: acos of (a^2 + b^2 - c^2) / 2 / a / b; acos is NaN for an
\* argument outside [-1, 1], and a zero side makes the quotient infinite or NaN
law_of_cosines(a, b, c) ==
    LET num == a * a + b * b - c * c
    IN  IF a = 0 \/ b = 0 THEN NaNAngle
        ELSE IF num > 2 * a * b \/ num < 0 - 2 * a * b THEN NaNAngle
        ELSE Fin(<<"acos", num, 2 * a * b>>)

\* top_down_angle of a point on the X or the Y axis of the ground plane
\* (unsigned angle to the X axis, quarter turns)
top_down_angle(point) ==
    IF point[2] # 0 THEN 1 ELSE IF point[1] > 0 THEN 0 ELSE 2

\* Vec3::Y.angle_between(pos): NaN for the zero vector
angle_between_Y(pos) ==
    IF pos = VZero THEN NaNAngle ELSE Fin(<<"angle_between_Y", pos>>)

\* The two-link triangle both builds solve for the reduced target pos
\* (already rotated onto the Y-Z plane) with link lengths len_1, len_2
triangle(pos, len_1, len_2) ==
    LET phi_h1 == law_of_cosines(vlength(pos), len_1, len_2)
        gamma_2_ == law_of_cosines(len_2, len_1, vlength(pos))
        phi_h0 == angle_between_Y(pos)
        phi_h == IF 0 > pos[3] THEN ang_neg(phi_h0) ELSE phi_h0
    IN  [phi_1 |-> ang_add(phi_h, phi_h1),
         phi_2 |-> ang_sub(gamma_2_, Fin(<<"PI">>))]

\* arm build: phis_from_def_vec
phis_from_def_vec(pos) ==
    LET base_phi == top_down_angle(pos) - PI \div 2
        rot == RotZ(0 - base_phi, pos)
        tri == triangle(rot, vlength(dims[1]), vlength(dims[2]))
    IN  Arr(<<Fin(<<"const", base_phi>>), tri.phi_1, tri.phi_2, Fin(<<"const", 0>>)>>)

\* arm build: deco_axis and reduce_to_def
deco_axis(tool) == VAdd(dims[3], tool.vec)
reduce_to_def(pos, dec_ang, tool) ==
    LET base_phi == top_down_angle(pos) - PI \div 2
        rot_point == RotZ(0 - base_phi, pos)
        dec_rot == RotX(dec_ang, deco_axis(tool))
    IN  VSub(VSub(VSub(rot_point, dec_rot), anchor), dims[0])

\* arm build: phis_from_vec
phis_from_vec(pos, dec_ang, tool) ==
    LET phis == phis_from_def_vec(reduce_to_def(pos, dec_ang, tool))
    IN  [phis EXCEPT ![3] = ang_sub(Fin(<<"const", dec_ang>>),
                                    ang_add(phis[1], phis[2]))]

\* lib build: the triangle point d_point of get_with_fixed_dec (a_dec lies on
\* the Y axis, so into_y leaves it as it is)
lib_d_point(point, dec_angle, tool) ==
    LET base_phi == top_down_angle(point) - PI \div 2
        rot_point == RotZ(0 - base_phi, point)
        dec_rot == RotX(dec_angle, a_dec(tool))
    IN  VSub(VSub(rot_point, dec_rot), a_b)

\* lib build: get_with_fixed_dec
get_with_fixed_dec(point, dec_angle, tool) ==
    LET base_phi == top_down_angle(point) - PI \div 2
        tri == triangle(lib_d_point(point, dec_angle, tool), l_a1, l_a2)
    IN  Arr(<<Fin(<<"const", base_phi>>), tri.phi_1, tri.phi_2,
              ang_sub(Fin(<<"const", dec_angle>>), ang_add(tri.phi_1, tri.phi_2))>>)

\* Targets of the inverse kinematics: on the X or Y axis of the ground plane,
\* inside, on and beyond the reach of the two links
IKTargets ==
    { <<0, y, z>> : y \in {150, 400, 600, 700}, z \in {50, 350} } \cup
    { <<x, 0, 50>> : x \in {0 - 400, 400, 700} }
IKDecAngles == {0, 1}

\* The inverse kinematics called for the target pos; neither function returns
\* a Result, so the call always comes back with a joint-angle vector
IKCall(pos, dec_ang) ==
    /\ ~panicked
    /\ ret' = IF build = "arm"
              THEN RetVal("ik", [def |-> reduce_to_def(pos, dec_ang, tools[tool_id]),
                                 dec |-> dec_ang,
                                 phis |-> phis_from_vec(pos, dec_ang, tools[tool_id])])
              ELSE RetVal("ik", [def |-> lib_d_point(pos, dec_ang, tools[tool_id]),
                                 dec |-> dec_ang,
                                 phis |-> get_with_fixed_dec(pos, dec_ang, tools[tool_id])])
    /\ UNCHANGED <<moving, awaiting, ws, build, gammas, limits, forces, inertias, vars,
                   tool_id, hooks, panicked, arg>>

\* The points of the pose arg: points_from_vecs of ArgVecs in the arm build,
\* get_points_by_phis in the lib build
PointsCall ==
    /\ ~panicked
    /\ ret' = IF build = "arm"
              THEN RetVal("points", points_from_vecs(ArgVecs, tools[tool_id]))
              ELSE RetVal("points", get_points_by_phis(get_all_phis(arg), tools[tool_id]))
    /\ UNCHANGED <<moving, awaiting, ws, build, gammas, limits, forces, inertias, vars,
                   tool_id, hooks, panicked, arg>>

\* arm build: the selection of the active tool among the mounted ones, which
\* checks the index, dismounts the tool active before and mounts the new one
select_tool(id) ==
    /\ build = "arm" /\ ~panicked
    /\ id \in DOMAIN tools
    /\ tool_id' = id
    /\ hooks' = IF id = tool_id THEN <<>>
                ELSE << <<"dismount", tool_id>>, <<"mount", id>> >>
    /\ ret' = Ret("set_tool_id", TRUE, AllTrue)
    /\ UNCHANGED <<moving, awaiting, ws, build, gammas, limits, forces, inertias, vars,
                   panicked, arg>>

\* arm build: phis_from_def_vec called on its own for the reduced target pos
DefVecCall(pos) ==
    /\ build = "arm" /\ ~panicked
    /\ ret' = RetVal("ik_def", [def |-> pos, phis |-> phis_from_def_vec(pos)])
    /\ UNCHANGED <<moving, awaiting, ws, build, gammas, limits, forces, inertias, vars,
                   tool_id, hooks, panicked, arg>>

\* ConfigElement: the type names get_comp and get_tool know.  An element is
\* its type_name and whether its obj deserialises into that type.
CompTypes == { "stepper_lib::ctrl::StepperCtrl",
               "stepper_lib::comp::cylinder::Cylinder",
               "stepper_lib::comp::cylinder_triangle::CylinderTriangle",
               "stepper_lib::comp::gear_bearing::GearBearing" }
ToolTypes == { "stepper_lib::comp::tool::axial_joint::AxialJoint",
               "stepper_lib::comp::tool::axis_tongs::AxisTongs",
               "stepper_lib::comp::tool::no_tool::NoTool",
               "stepper_lib::comp::tool::pencil_tool::PencilTool",
               "stepper_lib::comp::tool::tongs::Tongs" }

\* get_comp with a default component for an unknown type name
get_comp_defaulting(type_name, obj_ok) ==
    IF type_name \in CompTypes
    THEN IF obj_ok THEN <<"Some", type_name>> ELSE <<"panic", "unwrap">>
    ELSE <<"Some", "stepper_lib::ctrl::StepperCtrl">>

\* ConfigElement::get_comp (from_value(..).unwrap() panics on a malformed obj)
get_comp(type_name, obj_ok) ==
    IF type_name \in CompTypes
    THEN IF obj_ok THEN <<"Some", type_name>> ELSE <<"panic", "unwrap">>
    ELSE <<"None">>

\* ConfigElement::get_async_comp: get_comp wrapped into an AsyncCtrl
get_async_comp(type_name, obj_ok) ==
    LET comp == get_comp(type_name, obj_ok)
    IN  IF comp[1] = "Some" THEN <<"Some", "AsyncCtrl", comp[2]>> ELSE comp

\* ConfigElement::get_tool (NoTool::new() does not read the obj)
elem_get_tool(type_name, obj_ok) ==
    IF type_name \in ToolTypes
    THEN IF obj_ok \/ type_name = "stepper_lib::comp::tool::no_tool::NoTool"
         THEN <<"Ok", type_name>> ELSE <<"panic", "unwrap">>
    ELSE <<"Err", "InvalidData">>

\* The three constructors of one ConfigElement, for known type names, unknown
\* ones and near misses
ElemCall(type_name, obj_ok) ==
    /\ ~panicked
    /\ ret' = RetVal("elem", [type_name |-> type_name,
                              comp |-> get_comp(type_name, obj_ok),
                              async |-> get_async_comp(type_name, obj_ok),
                              tool |-> elem_get_tool(type_name, obj_ok)])
    /\ UNCHANGED <<moving, awaiting, ws, build, gammas, limits, forces, inertias, vars,
                   tool_id, hooks, panicked, arg>>

\* arm build: ActRobot::drive_comp_rel, the relative drive of the one
\* component index; the result remembers the call and the gammas before it
drive_comp_rel(index, delta) ==
    LET g == f32_add(gammas[index], delta)
    IN  /\ build = "arm" /\ ~panicked
        /\ is_finite(delta) => g \in FiniteVals
        /\ gammas' = [gammas EXCEPT ![index] = comp_drive_abs(limits, gammas, index, g)]
        /\ ret' = [op |-> "drive_comp_rel", ok |-> comp_valid(limits, index, g),
                   flags |-> AllTrue,
                   val |-> [index |-> index, delta |-> delta, before |-> gammas]]
        /\ UNCHANGED <<moving, awaiting, ws, build, limits, forces, inertias, vars,
                       tool_id, hooks, panicked, arg>>

\* A measurement and single-component drives after it (tests/movements.rs)
NextComp ==
    \/ \E reached \in Reached : measure(reached)
    \/ \E index \in Axes, delta \in DeltaVals : drive_comp_rel(index, delta)

SpecComp == Init /\ [][NextComp]_vars_all

\* G28, return to the home position.  robot.move_home() either brings every
\* axis home (home_ok) or fails with the axes in `moved` brought home and
\* the others where they were; both arms of the match yield Ok(Null).  The
\* result remembers what move_home returned.
g28(home_ok, moved) ==
    /\ ~panicked
    /\ home_ok => moved = Axes
    /\ ~home_ok => moved # Axes
    /\ gammas' = [i \in Axes |-> IF i \in moved THEN home[i] ELSE gammas[i]]
    /\ ret' = [op |-> "g28", ok |-> TRUE, flags |-> AllTrue,
               val |-> [move_home |-> home_ok, json |-> "Null"]]
    /\ UNCHANGED <<moving, awaiting, ws, build, limits, forces, inertias, vars,
                   tool_id, hooks, panicked, arg>>

\* G-code programs: homing between drives of single components
NextGcode ==
    \/ \E home_ok \in BOOLEAN, moved \in SUBSET Axes : g28(home_ok, moved)
    \/ \E index \in Axes, delta \in DeltaVals : drive_comp_rel(index, delta)

SpecGcode == Init /\ [][NextGcode]_vars_all

\* arm build: SyArm::set_endpoint.  The loop runs over the components 1 .. 3
\* and writes the given gamma as their position; the result is [true; 4].
set_endpoint(gs) ==
    /\ build = "arm" /\ ~panicked
    /\ gammas' = [i \in Axes |-> IF i \in 1 .. 3 THEN gs[i] ELSE gammas[i]]
    /\ ret' = [op |-> "set_endpoint", ok |-> TRUE, flags |-> AllTrue,
               val |-> [gammas |-> gs, before |-> gammas]]
    /\ UNCHANGED <<moving, awaiting, ws, build, limits, forces, inertias, vars,
                   tool_id, hooks, panicked, arg>>

\* arm build: ActRobot::set_end, comps.set_ends(gammas) for every component;
\* it returns nothing
set_end(gs) ==
    /\ build = "arm" /\ ~panicked
    /\ gammas' = gs
    /\ ret' = [op |-> "set_end", ok |-> TRUE, flags |-> AllTrue,
               val |-> [gammas |-> gs, before |-> gammas]]
    /\ UNCHANGED <<moving, awaiting, ws, build, limits, forces, inertias, vars,
                   tool_id, hooks, panicked, arg>>

\* lib build: SyArm::set_endpoint.  It takes no gammas: all four controllers
\* get the configured meas_b, meas_a1, meas_a2, meas_a3; it returns nothing
lib_set_endpoint ==
    /\ build = "lib" /\ ~panicked
    /\ gammas' = meas_set_val
    /\ ret' = [op |-> "lib_set_endpoint", ok |-> TRUE, flags |-> AllTrue,
               val |-> [gammas |-> meas_set_val, before |-> gammas]]
    /\ UNCHANGED <<moving, awaiting, ws, build, limits, forces, inertias, vars,
                   tool_id, hooks, panicked, arg>>

\* Endpoints set to every finite gamma vector, in any order
NextEnd ==
    \/ \E gs \in [Axes -> FiniteVals] : set_endpoint(gs)
    \/ \E gs \in [Axes -> FiniteVals] : set_end(gs)
    \/ lib_set_endpoint

SpecEnd == Init /\ [][NextEnd]_vars_all

\* The value of an angle term in quarter turns: {k} where the term is a whole
\* number k of quarter turns, {} where it is not (or is NaN)
RECURSIVE quarters(_)
quarters(e) ==
    CASE e[1] = "const" -> {e[2]}
      [] e[1] = "PI" -> {PI}
      [] e[1] = "acos" -> IF e[2] = e[3] THEN {0}
                          ELSE IF e[2] = 0 THEN {PI \div 2}
                          ELSE IF e[2] = 0 - e[3] THEN {PI} ELSE {}
      [] e[1] = "angle_between_Y" ->
             IF e[2][1] = 0 /\ e[2][3] = 0 THEN (IF e[2][2] > 0 THEN {0} ELSE {PI})
             ELSE IF e[2][1] = 0 /\ e[2][2] = 0 THEN {PI \div 2} ELSE {}
      [] e[1] = "add" -> {a + b : a \in quarters(e[2]), b \in quarters(e[3])}
      [] e[1] = "sub" -> {a - b : a \in quarters(e[2]), b \in quarters(e[3])}
      [] e[1] = "neg" -> {0 - a : a \in quarters(e[2])}
      [] OTHER -> {}

\* Targets of the two-link solver whose joint angles are whole quarter turns
\* (both links stretched out along an axis), and targets that have none
FKTargets ==
    { <<0, 550, 0>>, <<0, 0 - 550, 0>>, <<550, 0, 0>>, <<0 - 550, 0, 0>>,
      <<0, 400, 100>>, <<0, 600, 0>> }

\* arm build: the tip (last point) of points_from_vecs(vecs_from_phis(
\* phis_from_def_vec(pos))), where the angles are whole quarter turns
FKCall(pos) ==
    LET phis == phis_from_def_vec(pos)
        q == [i \in Axes |-> quarters(phis[i].expr)]
        on_grid == \A i \in Axes : q[i] # {}
        k == [i \in Axes |-> CHOOSE a \in q[i] : TRUE]
    IN  /\ build = "arm" /\ ~panicked
        /\ ret' = RetVal("fk_ik",
                    [pos |-> pos, phis |-> phis, on_grid |-> on_grid,
                     tip |-> IF on_grid
                             THEN points_from_vecs(vecs_from_phis(k),
                                                   tools[tool_id])[COMP - 1]
                             ELSE VZero])
        /\ UNCHANGED <<moving, awaiting, ws, build, gammas, limits, forces, inertias,
                       vars, tool_id, hooks, panicked, arg>>

\* The inverse kinematics and the configuration elements take no gamma
\* vector: they are called on the robot as constructed, with either tool
NextCalc ==
    \/ \E type_name \in CompTypes \cup ToolTypes \cup
                        {"", "StepperCtrl", "stepper_lib::comp::tool::Tongs"},
          obj_ok \in BOOLEAN : ElemCall(type_name, obj_ok)
    \/ \E pos \in IKTargets : DefVecCall(pos)
    \/ \E pos \in FKTargets : FKCall(pos)
    \/ \E pos \in IKTargets, dec_ang \in IKDecAngles : IKCall(pos, dec_ang)
    \/ \E id \in 0 .. NumTools - 1 : set_tool_id(id)
    \/ \E id \in 0 .. NumTools - 1 : select_tool(id)

SpecCalc == Init /\ [][NextCalc]_vars_all

\* The current phis, read from the components (lib build: get_all_phis, arm
\* build: ActRobot::phis) and converted from the current gammas
\* (phis_for_gammas(get_all_gammas()), phis_from_gammas(gammas()))
PhisCall ==
    /\ ~panicked
    /\ ret' = IF build = "arm"
              THEN RetVal("phis", [all |-> phis_from_gammas(gammas),
                                   conv |-> phis_from_gammas(gammas)])
              ELSE RetVal("phis", [all |-> get_all_phis(gammas),
                                   conv |-> phis_for_gammas(gammas)])
    /\ UNCHANGED <<moving, awaiting, ws, build, gammas, limits, forces, inertias, vars,
                   tool_id, hooks, panicked, arg>>

\* arm build: vecs_from_points
vecs_from_points(points) ==
    [i \in Axes |-> IF i = 0 THEN VSub(points[0], anchor)
                             ELSE VSub(points[i], points[i - 1])]

\* arm build: the vecs of the pose arg turned into points and back
VecsCall ==
    /\ build = "arm" /\ ~panicked
    /\ ret' = RetVal("vecs",
                [v |-> ArgVecs,
                 back |-> vecs_from_points(points_from_vecs(ArgVecs, tools[tool_id]))])
    /\ UNCHANGED <<moving, awaiting, ws, build, gammas, limits, forces, inertias, vars,
                   tool_id, hooks, panicked, arg>>

NextPure ==
    \/ VecsCall
    \/ drive_abs(arg)
    \/ drive_to_angles(arg)
    \/ PhisCall
    \/ ConvCall
    \/ LoadsCall
    \/ PointsCall
    \/ \E id \in 0 .. NumTools - 1 : select_tool(id)
    \/ \E id \in 0 .. NumTools - 1 : set_tool_id(id)

SpecPure == InitPure /\ [][NextPure]_vars_all

\* ------------------------------------------------------------------------
\* Properties
\* ------------------------------------------------------------------------
\* min <= g <= max for the bounds the limit lim has, g finite
InLimit(lim, g) ==
    /\ lim.min # None => lim.min[1] <= g
    /\ lim.max # None => g <= lim.max[1]

\* Every entry of gs is finite and within the limit of its axis
AllValid(lims, gs) ==
    \A i \in Axes : gs[i] \in FiniteVals /\ InLimit(lims[i], gs[i])

\* The step is a multi-axis drive to the target gs
DriveTo(gs) ==
    \/ drive_abs(gs)
    \/ drive_to_angles(gs)
    \/ \E deltas \in DriveDeltas :
          /\ gs = [i \in Axes |-> f32_add(gammas[i], deltas[i])]
          /\ drive_rel(deltas)

\* C1: a multi-axis drive whose target has an entry that is non-finite or
\* outside the limit of its axis returns an error and moves no axis, not even
\* the axes whose own target is valid.
C1_DriveValidatesFirst ==
    [][\A gs \in AllGammaVecs :
          (DriveTo(gs) /\ ~AllValid(limits, gs)) =>
              (~ret'.ok /\ gammas' = gammas)]_vars_all

\* C2: valid_gammas accepts a gamma vector if and only if every entry is
\* finite and within the [min, max] limit of its axis; so it rejects every
\* vector with a NaN, an infinite or an out-of-limit entry, and it accepts the
\* home position.
C2_ValidIffFiniteInLimits ==
    ret.op = "valid_gammas" =>
        /\ ret.ok <=> AllValid(limits, arg)
        /\ arg = home => ret.ok

\* C2 happens: a vector with a NaN entry was rejected under set limits
C2_Witness ==
    /\ ret.op = "valid_gammas" /\ ~ret.ok
    /\ limits = limit
    /\ \E i \in Axes : arg[i] = NaN
    /\ \A i \in Axes : arg[i] = NaN \/ (arg[i] \in FiniteVals /\ InLimit(limits[i], arg[i]))

\* C3: when valid_gammas rejects a vector, the diagnostic is false at exactly
\* the axes whose gamma is non-finite or out of limit and true at the others,
\* the result is an error, and the call changes nothing of the robot
\* (component positions, limits, RobotVars, loads).
C3_DiagnosticExact ==
    [][(ret'.op = "valid_gammas" /\ ~ret'.ok) =>
          /\ \A i \in Axes :
                ret'.flags[i] <=> (arg[i] \in FiniteVals /\ InLimit(limits[i], arg[i]))
          /\ \E i \in Axes : ~ret'.flags[i]
          /\ UNCHANGED <<gammas, limits, vars, forces, inertias, tool_id>>]_vars_all

\* C3 happens: a rejection that blames one axis for its limit, another for
\* being infinite, and clears the other two
C3_Witness ==
    /\ ret.op = "valid_gammas" /\ ~ret.ok
    /\ limits = limit
    /\ \E i, j \in Axes :
          /\ arg[i] \in FiniteVals /\ ~InLimit(limits[i], arg[i])
          /\ arg[j] = PosInf
          /\ ret.flags = [k \in Axes |-> k \notin {i, j}]

\* ------------------------------------------------------------------------
\* Measurement properties
\* ------------------------------------------------------------------------
\* The step is a measurement run in which exactly the axes of reached got to
\* their reference switch
Measured(reached) == measure(reached) \/ lib_measure(reached)

\* C4: measure() returns Ok if and only if every axis, the base (axis 0)
\* included, reached its reference; a single failing axis makes it return Err.
C4_MeasureOkIffAllReached ==
    [][\A reached \in Reached :
          (Measured(reached) /\ ~panicked') =>
              (ret'.ok <=> \A i \in Axes : reached[i])]_vars_all

\* C5: when measure() fails, the status array is false at exactly the axes
\* that did not reach their reference and true at the others, for every axis
\* 0 .. COMP-1.
C5_MeasureFlagsExact ==
    [][\A reached \in Reached :
          (Measured(reached) /\ ret'.op = "measure" /\ ~ret'.ok) =>
              \A i \in Axes : ret'.flags[i] <=> reached[i]]_vars_all

\* C6: after measure() returned Ok, the gamma of every axis, the base
\* included, is the measurement set value of that axis.
C6_MeasuredAtSetVal ==
    (ret.op = "measure" /\ ret.ok) => \A i \in Axes : gammas[i] = meas_set_val[i]

\* C7: measure() recomputes pose and loads exactly when it returns Ok: then
\* the loads applied and the cached tip position are those of an update at the
\* measured position; when it returns Err, the cached tip position, the applied
\* loads and the limits are left as they were.  The limits are set by nothing
\* but a successful measure().
C7_UpdateIffMeasureOk ==
    [][/\ ret'.op = "measure" =>
            IF ret'.ok
            THEN LET u == Updated(gammas', get_tool(tool_id)[1])
                 IN  /\ forces' = u.forces
                     /\ inertias' = u.inertias
                     /\ vars' = [vars EXCEPT !.point = u.point]
            ELSE UNCHANGED <<forces, inertias, vars, limits>>
       /\ limits' # limits => (ret'.op = "measure" /\ ret'.ok)]_vars_all

\* C7 happens: a measurement failed after an earlier one had succeeded and the
\* robot had moved on; the tip position cached is still the one of the
\* successful measurement
C7_Witness ==
    /\ ret.op = "measure" /\ ~ret.ok
    /\ limits = limit
    /\ gammas # meas_set_val
    /\ vars.point = Updated(meas_set_val, get_tool(0)[1]).point
    /\ forces = Updated(meas_set_val, get_tool(0)[1]).forces

\* ------------------------------------------------------------------------
\* Tool properties
\* ------------------------------------------------------------------------
\* The step is a tool selection with the index id
Selected(id) == set_tool_id(id) \/ t(id)

\* C8: set_tool_id(i) with i >= the number of tools is rejected with an error
\* and leaves the active tool index as it was.
C8_ToolIndexRejected ==
    [][\A id \in ToolArgs :
          (Selected(id) /\ id >= NumTools) =>
              (~ret'.ok /\ tool_id' = tool_id)]_vars_all

\* C9: whatever indices set_tool_id was called with, the active index is
\* smaller than the tool count, get_tool() is not None and no
\* get_tool().unwrap() has panicked.
C9_ActiveToolExists ==
    /\ tool_id < NumTools
    /\ get_tool(tool_id) # None
    /\ ~panicked

\* C10: a set_tool_id(id) with a valid index that changes the selection calls
\* dismount() on the tool active before and then mount() on the tool selected,
\* each once; an update after it computes the tip with the offset of the tool
\* selected.
C10_ToolChangeHooks ==
    [][/\ \A id \in ToolArgs :
             (set_tool_id(id) /\ id < NumTools /\ id # tool_id) =>
                 hooks' = << <<"dismount", tool_id>>, <<"mount", id>> >>
       /\ (build = "lib" /\ ret'.op = "update") =>
             vars'.point = update_sim(gammas, vars.load, tools[tool_id]).point]_vars_all

\* ------------------------------------------------------------------------
\* Batched measurement
\* ------------------------------------------------------------------------
\* C11: measure() never aborts early: the measurement of every axis is
\* attempted and runs to completion, whatever an earlier axis did (every axis
\* ends where its own measurement run leaves it), and the result is a failure
\* whenever any axis failed.
C11_MeasureNoFailFast ==
    [][\A reached \in Reached :
          (Measured(reached) /\ ~panicked') =>
              /\ \A i \in Axes : gammas'[i] = comp_measure(gammas, i, reached[i])
              /\ (\E i \in Axes : ~reached[i]) => ~ret'.ok]_vars_all

\* ------------------------------------------------------------------------
\* Asynchronous motion properties
\* ------------------------------------------------------------------------
\* The step is an asynchronous multi-axis drive to the target gs
DriveAsyncTo(gs) == drive_abs_async(gs) \/ drive_to_angles_async(gs)

C14_VarsWrittenWhenIdle ==
    [][(update(None) /\ ret'.op = "update") => AllIdle]_vars_all

\* Some axis has a measurement run in flight
HomingInFlight == \E i \in Axes : moving[i] # None /\ moving[i][1].kind = "measure"

\* C15: measure_async only issues the measurement runs: it recomputes neither
\* pose nor loads nor limits and moves nothing itself; and a pose computation
\* that follows it happens only after await_inactive has seen every axis idle:
\* no update is called straight after measure_async or while a measurement run
\* is still in flight.
C15_AsyncHomingThenBarrier ==
    [][/\ measure_async =>
             UNCHANGED <<gammas, limits, forces, inertias, vars>>
       /\ (update(None) /\ ret'.op = "update") =>
             (ret.op # "measure_async" /\ ~HomingInFlight)]_vars_all

\* ------------------------------------------------------------------------
\* Conversion and kinematics properties
\* ------------------------------------------------------------------------
\* C16: the Phi/Gamma conversions are mutually inverse on every axis: for every
\* gamma vector g, phis(gammas(phis(g))) = phis(g), and per axis
\* gamma_k(phi_k(x)) = x and phi_k(gamma_k(x)) = x.
C16_PhiGammaInverse ==
    ret.op = "convert" =>
        /\ ret.val.pgp = ret.val.p
        /\ ret.val.gp = arg
        /\ ret.val.pg = arg

\* What an update with the phis used has to write: tip and loads of the one
\* pose these phis describe
PoseOf(used) ==
    IF build = "arm"
    THEN update_arm(used, gammas_from_phis(used), vars.load, tools[tool_id])
    ELSE update_sim(gammas_for_phis(used), vars.load, tools[tool_id])

\* C17: after update(phis) has returned, vars.point is the last point of the
\* forward kinematics of the phis used (the given ones, else the current ones
\* of the components), and the load force and the load inertia applied to
\* every component are computed from that same pose.
C17_UpdateFromOnePose ==
    [][\A phis \in UpdateArgs :
          (update(phis) /\ ret'.op = "update") =>
              LET used == IF phis # None THEN phis[1]
                          ELSE IF build = "arm" THEN phis_from_gammas(gammas)
                                                ELSE get_all_phis(gammas)
              IN  /\ vars'.point = PoseOf(used).point
                  /\ \A i \in Axes : /\ forces'[i] = PoseOf(used).forces[i]
                                     /\ inertias'[i] = PoseOf(used).inertias[i]]_vars_all

\* C18: inertias_from_vecs and forces_from_vecs are pure functions of the
\* pose passed to them: with the same masses, payload, tool and vecs they
\* return the same result whatever the components' current gammas are (the
\* base component's in particular), and a call changes no robot state.
C18_LoadsPureInVecs ==
    [][LoadsCall =>
          /\ UNCHANGED <<gammas, limits, forces, inertias, vars, tool_id, moving>>
          /\ \A gamma_base \in FiniteVals :
                 ret'.val = Loads(ArgVecs, gamma_base)]_vars_all

\* C19: the inverse kinematics fails with an error whenever the reduced
\* target lies farther away than the two links reach together (the law of
\* cosines argument is then outside [-1, 1]), and a joint-angle vector it
\* returns never holds NaN.
C19_UnreachableIsError ==
    ret.op = "ik" =>
        /\ vlength(ret.val.def) > l_a1 + l_a2 => ~ret.ok
        /\ ret.ok => \A i \in Axes : ~ret.val.phis[i].nan

\* The tool vector as the last segment carries it in the lib build
lib_tool_offset(angles, tool) ==
    RotZ(angles[0], RotX(angles[1], RotX(angles[2], RotX(angles[3], tool.vec))))

C21_WristClosesDecAngle ==
    /\ ret.op = "ik" =>
          /\ \A i \in 1 .. 3 : ~ret.val.phis[i].nan
          /\ ret.val.phis[3].expr =
                 <<"sub", <<"const", ret.val.dec>>,
                   <<"add", ret.val.phis[1].expr, ret.val.phis[2].expr>> >>
    /\ ret.op = "ik_def" => ret.val.phis[3] = Fin(<<"const", 0>>)

\* ------------------------------------------------------------------------
\* Configuration elements

C23_RelDriveThereAndBack ==
    [][\A i \in Axes, d \in {0 - 1, 1} :
          /\ drive_comp_rel(i, d) => \A j \in Axes \ {i} : gammas'[j] = gammas[j]
          /\ ( /\ limits = limit
               /\ ret.op = "drive_comp_rel" /\ ret.ok
               /\ ret.val.index = i /\ ret.val.delta = d
               /\ drive_comp_rel(i, 0 - d) ) => gammas' = ret.val.before]_vars_all

\* ------------------------------------------------------------------------
\* Forward after inverse kinematics

\* C24: for every reachable target p the forward kinematics of the inverse
\* kinematics result gives p back: the tip of
\* points_from_vecs(vecs_from_phis(phis_from_def_vec(p))) is p.
C24_ForwardOfInverse ==
    (ret.op = "fk_ik" /\ ret.val.on_grid) => ret.val.tip = ret.val.pos

\* ------------------------------------------------------------------------
\* The two ways to the current phis

\* C25: for every position of the components, the phis read from them
\* (get_all_phis) equal the phis converted from the gammas read from them
\* (phis_for_gammas(get_all_gammas())) on every axis.
C25_CurrentPhisAgree ==
    ret.op = "phis" => \A i \in Axes : ret.val.all[i] = ret.val.conv[i]

\* ------------------------------------------------------------------------
\* Relative drives, asynchronous against blocking

\* C26: on every axis a relative asynchronous drive followed by
\* await_inactive ends where the blocking relative drive with the same
\* argument ends: drive_X_rel_async(d) from gamma g, then await_inactive,
\* leaves the axis at the gamma drive_X_rel(d) leaves it at.
C26_RelAsyncAsBlocking ==
    [][( /\ ret.op = "drive_rel_async" /\ ret.ok /\ ret.val.idle
         /\ awaiting # None /\ awaiting' = None )
          => gammas'[ret.val.index] = ret.val.sync]_vars_all

\* ------------------------------------------------------------------------
\* Points back to vectors

\* C27: vecs_from_points is the inverse of points_from_vecs: for every vector
\* array v and every active tool, vecs_from_points(points_from_vecs(v)) = v.
C27_VecsOfPoints ==
    ret.op = "vecs" => \A i \in Axes : ret.val.back[i] = ret.val.v[i]

\* ------------------------------------------------------------------------
\* WebSocket messages

\* C28: text messages are interpreted one at a time: a handler holds the
\* AppData mutex from before the first line of its message until all results
\* are produced, so the lines of two messages never interleave on the robot;
\* and the reply's len is the number of entries of res, one entry per line in
\* order, an Err kept as a {code, msg} entry.
C28_MessagesOneAtATime ==
    /\ \A c \in Conns : ws.conn[c].pc = "interpret" => ws.lock = c
    /\ \A i, j, k \in 1 .. Len(ws.log) :
          (i < j /\ j < k /\ ws.log[i][1] = ws.log[k][1]) => ws.log[j][1] = ws.log[i][1]
    /\ \A c \in Conns : ws.conn[c].pc = "done" =>
          LET reply == ws.conn[c].reply[1]
              text == ws.conn[c].text
          IN  /\ reply.len = Len(reply.res)
              /\ Len(reply.res) = Len(text)
              /\ \A k \in 1 .. Len(text) :
                    reply.res[k] = IF text[k] = "ok" THEN <<"value", k>>
                                   ELSE <<"code", "msg", k>>

\* Both connections have sent a message of two lines, one with a failing
\* line, and both replies are out
C28_Witness ==
    /\ \A c \in Conns : ws.conn[c].pc = "done" /\ Len(ws.conn[c].text) = 2
    /\ \E c \in Conns : ws.conn[c].text[1] = "err"
    /\ Len(ws.log) = 4
    /\ ws.lock = 0

\* ------------------------------------------------------------------------
\* G-code functions

\* C29: a failed homing is surfaced to the G-code caller: whenever move_home
\* returns an error, g28 returns an Err result, never the Ok(Null) of a
\* successful homing.
C29_FailedHomingSurfaced ==
    (ret.op = "g28" /\ ~ret.val.move_home) => ~ret.ok

\* ------------------------------------------------------------------------
\* Endpoints

\* C30: set_endpoint sets the endpoint of every axis 0 .. COMP-1 to the
\* corresponding given gamma, and the returned per-axis boolean array is true
\* only at axes whose endpoint was actually set.
C30_SetEndpointEveryAxis ==
    ret.op = "set_endpoint" =>
        /\ \A i \in Axes : gammas[i] = ret.val.gammas[i]
        /\ \A i \in Axes : ret.flags[i] => gammas[i] = ret.val.gammas[i]

====
